---- MODULE Spec2Model ----
(***************************************************************************)
(* State-machine model of the PyTorch platform handler                     *)
(* src/resources/platform_handlers/pytorch/model.py: the model locator,    *)
(* the loader run by TritonPythonModel.initialize, the batch / unbatch     *)
(* helpers, TritonPythonModel.execute and TritonPythonModel.finalize.      *)
(*                                                                         *)
(* A Python exception is a record [type, msg]; an operator that can raise  *)
(* returns [exc |-> ..., val |-> ...] and its caller propagates exc.       *)
(* Logging calls change no state that is modelled and are left out.        *)
(***************************************************************************)
EXTENDS Integers, Sequences, FiniteSets, TLC

VARIABLES
    files,          \* disk: the set of paths that exist (os.path.exists)
    module_attrs,   \* disk: attributes, in dir() order, of the .py model file
    data_ok,        \* disk: whether a companion parameter file deserializes and loads
    artifact_fn,    \* disk: the forward function the stored model computes
    torch_state,    \* torch globals: thread settings and the inference-mode flag
    self,           \* attributes of the TritonPythonModel instance
    phase,          \* "constructed", "initialized", "init_failed" or "finalized"
    last_exc,       \* exception raised by the last initialize / finalize call
    located,        \* model_path found by the last initialize ("" when none was)
    call,           \* observation of the last execute call, NoCall when none is pending
    pure_in,        \* input of a direct call of a module-level helper
    pure_out        \* its result

vars == <<files, module_attrs, data_ok, artifact_fn, torch_state, self, phase,
          last_exc, located, call, pure_in, pure_out>>

(***************************************************************************)
(* Bounds of the model.                                                    *)
(***************************************************************************)
MaxAttrs == 2       \* attributes of the model module
MaxReq == 3         \* requests in one execute call
MaxLen == 2         \* axis-0 length of one request's tensors
MaxInputs == 2      \* configured inputs
MaxOutputs == 2     \* configured outputs

(***************************************************************************)
(* Exceptions.                                                             *)
(***************************************************************************)
NoExc == [type |-> "none", msg |-> ""]
Exc(t, m) == [type |-> t, msg |-> m]
Unset == "unset"    \* an instance attribute that was never assigned

(***************************************************************************)
(* Model locator.                                                          *)
(***************************************************************************)
get_model_dir == "/models/m/1"

path_join(dir, filename) == dir \o "/" \o filename

RECURSIVE first_existing_path(_, _)
first_existing_path(filenames, fs) ==
    IF filenames = <<>> THEN ""
    ELSE LET model_path == path_join(get_model_dir, Head(filenames))
         IN IF model_path \in fs THEN model_path
            ELSE first_existing_path(Tail(filenames), fs)

\* Mutant: the configured filename is tried after the conventional names.
candidate_filenames_default_last(config) ==
    LET filenames == <<"model.py", "model.pt", "model.pth">>
    IN IF config.default_model_filename # ""
       THEN filenames \o <<config.default_model_filename>>
       ELSE filenames

candidate_filenames(config) ==
    LET filenames == <<"model.py", "model.pt", "model.pth">>
    IN IF config.default_model_filename # ""
       THEN <<config.default_model_filename>> \o filenames
       ELSE filenames

\* Mutant: when no candidate exists the last candidate's path is returned.
get_model_path_no_raise(config, fs) ==
    LET found == first_existing_path(candidate_filenames(config), fs)
    IN [exc |-> NoExc,
        val |-> IF found # "" THEN found ELSE path_join(get_model_dir, "model.pth")]

get_model_path(config, fs) ==
    LET found == first_existing_path(candidate_filenames(config), fs)
    IN IF found # ""
       THEN [exc |-> NoExc, val |-> found]
       ELSE [exc |-> Exc("TritonModelException", "No model found in " \o get_model_dir),
             val |-> ""]

get_model_data_path(model_path, fs) ==
    IF model_path \o ".pt" \in fs THEN model_path \o ".pt"
    ELSE IF model_path \o ".pth" \in fs THEN model_path \o ".pth"
    ELSE ""

is_py_class_model(model_path) ==
    LET n == Len(model_path)
    IN (IF n <= 3 THEN model_path ELSE SubSeq(model_path, n - 2, n)) = ".py"

(***************************************************************************)
(* Class discovery.  An attribute is [name, kind]: kind "value" is not a   *)
(* class (issubclass raises TypeError), "class" is a class that does not   *)
(* derive from torch.nn.Module, "nnModule" is one that does.               *)
(***************************************************************************)
import_module_from_path(module_name, file_path, attrs) ==
    [name |-> module_name, file |-> file_path, attrs |-> attrs]

issubclass_nn_module(attr) ==
    IF attr.kind = "value" THEN [exc |-> Exc("TypeError", "issubclass() arg 1 must be a class"),
                                 val |-> FALSE]
    ELSE [exc |-> NoExc, val |-> attr.kind = "nnModule"]

RECURSIVE scan_attrs(_)
scan_attrs(attrs) ==
    IF attrs = <<>>
    THEN [exc |-> Exc("TritonModelException", "Cannot find a subclass of torch.nn.Module"),
          val |-> Unset]
    ELSE LET r == issubclass_nn_module(Head(attrs))
         IN IF r.exc = NoExc /\ r.val
            THEN [exc |-> NoExc, val |-> Head(attrs).name]
            ELSE scan_attrs(Tail(attrs))

get_model_class_from_module(module) == scan_attrs(module.attrs)

parse_io_config(io_config) ==
    [k \in 1..Len(io_config) |-> [name |-> io_config[k].name]]

(***************************************************************************)
(* Device resolution.                                                      *)
(***************************************************************************)
get_device_name(model_instance_kind, model_instance_device_id) ==
    IF model_instance_kind = "GPU" THEN "cuda:" \o model_instance_device_id
    ELSE IF model_instance_kind = "CPU" THEN "cpu"
    ELSE ""

get_device(model_instance_kind, model_instance_device_id) ==
    LET device_name == get_device_name(model_instance_kind, model_instance_device_id)
    IN IF device_name # "" THEN device_name ELSE "None"

torch_object_to_device(obj, device) ==
    IF device # "None" THEN [obj EXCEPT !.device = device] ELSE obj

(***************************************************************************)
(* Parallelism settings and torch.compile parameters.  The string values   *)
(* of the configuration are converted by the tables int_of and json_loads. *)
(***************************************************************************)
int_of(s) ==
    CASE s = "1" -> [exc |-> NoExc, val |-> 1]
      [] s = "2" -> [exc |-> NoExc, val |-> 2]
      [] s = "4" -> [exc |-> NoExc, val |-> 4]
      [] OTHER -> [exc |-> Exc("ValueError", "invalid literal for int()"), val |-> 0]

json_loads(s) ==
    CASE s = "{}" -> [exc |-> NoExc, val |-> {}]
      [] s = "{\"fullgraph\": true}" -> [exc |-> NoExc, val |-> {"fullgraph"}]
      [] s = "{\"model\": 1}" -> [exc |-> NoExc, val |-> {"model"}]
      [] s = "{\"model\": 1, \"fullgraph\": true}" ->
             [exc |-> NoExc, val |-> {"model", "fullgraph"}]
      [] OTHER -> [exc |-> Exc("JSONDecodeError", "Expecting value"), val |-> {}]

RECURSIVE apply_parallelism(_, _, _)
apply_parallelism(settings, config, ts) ==
    IF settings = <<>> THEN [exc |-> NoExc, val |-> ts]
    ELSE LET setting == Head(settings)
         IN IF setting \in DOMAIN config.parameters
            THEN LET v == int_of(config.parameters[setting].string_value)
                 IN IF v.exc # NoExc THEN [exc |-> v.exc, val |-> ts]
                    ELSE apply_parallelism(Tail(settings), config,
                             IF setting = "NUM_THREADS"
                             THEN [ts EXCEPT !.num_threads = v.val]
                             ELSE [ts EXCEPT !.num_interop_threads = v.val])
            ELSE apply_parallelism(Tail(settings), config, ts)

set_torch_parallelism(config, ts) ==
    apply_parallelism(<<"NUM_THREADS", "NUM_INTEROP_THREADS">>, config, ts)

get_torch_compile_params(config) ==
    IF "TORCH_COMPILE_OPTIONAL_PARAMETERS" \in DOMAIN config.parameters
    THEN LET p == json_loads(config.parameters["TORCH_COMPILE_OPTIONAL_PARAMETERS"].string_value)
         IN IF p.exc # NoExc THEN p
            ELSE IF "model" \in p.val
            THEN [exc |-> Exc("TritonModelException",
                              "'model' is not an optional parameter for 'torch.compile'"),
                  val |-> p.val]
            ELSE p
    ELSE [exc |-> NoExc, val |-> {}]

(***************************************************************************)
(* Tensors.  A tensor is [rows, shape, device]: rows is the sequence of    *)
(* its slices along axis 0, shape stands for all its other dimensions.     *)
(***************************************************************************)
RECURSIVE sum_seq(_)
sum_seq(s) == IF s = <<>> THEN 0 ELSE Head(s) + sum_seq(Tail(s))

size0(tensor) == Len(tensor.rows)

torch_cat(a, b) ==
    IF a.shape # b.shape
    THEN [exc |-> Exc("RuntimeError", "Sizes of tensors must match except in dimension 0"),
          val |-> a]
    ELSE [exc |-> NoExc, val |-> [a EXCEPT !.rows = a.rows \o b.rows]]

RECURSIVE split_rows(_, _)
split_rows(rows, sections) ==
    IF sections = <<>> THEN <<>>
    ELSE <<SubSeq(rows, 1, Head(sections))>>
         \o split_rows(SubSeq(rows, Head(sections) + 1, Len(rows)), Tail(sections))

torch_split(tensor, sections) ==
    IF sum_seq(sections) # size0(tensor)
    THEN [exc |-> Exc("RuntimeError", "split_with_sizes expects split_sizes to sum exactly"),
          val |-> <<>>]
    ELSE [exc |-> NoExc,
          val |-> [i \in 1..Len(sections) |->
                      [tensor EXCEPT !.rows = split_rows(tensor.rows, sections)[i]]]]

(***************************************************************************)
(* _batch_torch_tensors.  The value of torch.cat is not stored: the call   *)
(* can raise, and batch_tensors[j] stays the first request's tensor.       *)
(***************************************************************************)
RECURSIVE batch_slots(_, _, _)
batch_slots(request_tensors, j, batch_tensors) ==
    IF j > Len(request_tensors) THEN [exc |-> NoExc, val |-> batch_tensors]
    ELSE LET request_tensor == request_tensors[j]
         IN IF j <= Len(batch_tensors)
            THEN LET c == torch_cat(batch_tensors[j], request_tensor)
                 IN IF c.exc # NoExc THEN [exc |-> c.exc, val |-> batch_tensors]
                    ELSE batch_slots(request_tensors, j + 1, batch_tensors)
            ELSE batch_slots(request_tensors, j + 1, Append(batch_tensors, request_tensor))

RECURSIVE batch_requests(_, _, _, _)
batch_requests(requests_tensors, i, batch_tensors, sections) ==
    IF i > Len(requests_tensors)
    THEN [exc |-> NoExc, val |-> [merged |-> <<batch_tensors>>, sections |-> sections]]
    ELSE LET request_tensors == requests_tensors[i]
             b == batch_slots(request_tensors, 1, batch_tensors)
         IN IF b.exc # NoExc
            THEN [exc |-> b.exc, val |-> [merged |-> <<>>, sections |-> <<>>]]
            ELSE IF request_tensors = <<>>
            THEN [exc |-> Exc("IndexError", "list index out of range"),
                  val |-> [merged |-> <<>>, sections |-> <<>>]]
            ELSE batch_requests(requests_tensors, i + 1, b.val,
                                Append(sections, size0(request_tensors[1])))

batch_torch_tensors(requests_tensors) ==
    batch_requests(requests_tensors, 1, <<>>, <<>>)

(***************************************************************************)
(* _unbatch_torch_tensors.                                                 *)
(***************************************************************************)
RECURSIVE unbatch_pieces(_, _, _)
unbatch_pieces(responses_tensor, i, responses_tensors) ==
    IF i > Len(responses_tensor) THEN responses_tensors
    ELSE LET grown == IF i > Len(responses_tensors)
                      THEN Append(responses_tensors, <<>>)
                      ELSE responses_tensors
         IN unbatch_pieces(responses_tensor, i + 1,
                [grown EXCEPT ![i] = Append(grown[i], responses_tensor[i])])

RECURSIVE unbatch_slots(_, _, _, _)
unbatch_slots(response_tensors, sections, j, responses_tensors) ==
    IF j > Len(response_tensors) THEN [exc |-> NoExc, val |-> responses_tensors]
    ELSE LET s == torch_split(response_tensors[j], sections)
         IN IF s.exc # NoExc THEN [exc |-> s.exc, val |-> <<>>]
            ELSE unbatch_slots(response_tensors, sections, j + 1,
                               unbatch_pieces(s.val, 1, responses_tensors))

\* Mutant: the pieces are grouped by output slot instead of by request.
unbatch_torch_tensors_by_slot(response_tensors, sections) ==
    IF \E j \in 1..Len(response_tensors) :
          torch_split(response_tensors[j], sections).exc # NoExc
    THEN [exc |-> Exc("RuntimeError", "split_with_sizes expects split_sizes to sum exactly"),
          val |-> <<>>]
    ELSE [exc |-> NoExc,
          val |-> [j \in 1..Len(response_tensors) |->
                      torch_split(response_tensors[j], sections).val]]

unbatch_torch_tensors(response_tensors, sections) ==
    unbatch_slots(response_tensors, sections, 1, <<>>)

(***************************************************************************)
(* The instance.  self.assigned is the set of attributes assigned so far   *)
(* (the instance __dict__); the other fields hold their values.            *)
(***************************************************************************)
NoModel ==
    [kind |-> "none", fn |-> "", class |-> "", device |-> "cpu", training |-> TRUE,
     state_loaded |-> FALSE, compile_params |-> {}]

NoConfig ==
    [max_batch_size |-> 0, input |-> <<>>, output |-> <<>>,
     default_model_filename |-> "", parameters |-> <<>>]

BlankSelf ==
    [assigned |-> {}, model_name |-> "", model_config |-> NoConfig,
     support_batching |-> FALSE, inputs |-> <<>>, outputs |-> <<>>,
     infer_mode |-> [entered |-> FALSE, prev |-> FALSE], device |-> "None",
     batcher |-> {}, unbatcher |-> {}, model_module |-> "", model_class |-> "",
     raw_model |-> NoModel, model |-> NoModel]

SetAttr(slf, name, value) ==
    [slf EXCEPT ![name] = value, !.assigned = @ \cup {name}]

HasAttr(slf, name) == name \in slf.assigned

\* Mutant: batching counted as enabled for max_batch_size = 0 too.
support_batching_nonneg(config) == config.max_batch_size >= 0

support_batching_of(config) == config.max_batch_size > 0

torch_jit_load(model_path, fs, fn) ==
    IF model_path \in fs
    THEN [exc |-> NoExc,
          val |-> [NoModel EXCEPT !.kind = "TorchScript", !.fn = fn, !.state_loaded = TRUE]]
    ELSE [exc |-> Exc("ValueError", "The provided filename does not exist"),
          val |-> NoModel]

load_state_dict(raw_model, data_path, dok) ==
    IF dok THEN [exc |-> NoExc, val |-> [raw_model EXCEPT !.state_loaded = TRUE]]
    ELSE [exc |-> Exc("RuntimeError", "Error(s) in loading state_dict"), val |-> raw_model]

torch_compile_model(raw_model, params) ==
    [raw_model EXCEPT !.kind = "compiled", !.compile_params = params]

(***************************************************************************)
(* TritonPythonModel.initialize, in the order of its statements.  A stage  *)
(* takes and returns st = [self, torch, exc, params, model_path]; once     *)
(* st.exc is set the remaining stages are skipped (the exception leaves    *)
(* initialize).                                                            *)
(***************************************************************************)
init_config(slf, ts, args) ==
    LET config == args.model_config
        s1 == SetAttr(slf, "model_name", args.model_name)
        s2 == SetAttr(s1, "model_config", config)
        s3 == SetAttr(s2, "support_batching", support_batching_of(config))
        s4 == SetAttr(s3, "inputs", parse_io_config(config.input))
        s5 == SetAttr(s4, "outputs", parse_io_config(config.output))
        par == set_torch_parallelism(config, ts)
    IN [self |-> s5, torch |-> par.val, exc |-> par.exc, params |-> {}, model_path |-> ""]

init_infer_mode(st) ==
    IF st.exc # NoExc THEN st
    ELSE [st EXCEPT
            !.self = SetAttr(@, "infer_mode",
                             [entered |-> TRUE, prev |-> st.torch.inference_mode]),
            !.torch = [@ EXCEPT !.inference_mode = TRUE]]

init_device(st, args) ==
    IF st.exc # NoExc THEN st
    ELSE [st EXCEPT
            !.self = SetAttr(@, "device",
                             get_device(args.model_instance_kind,
                                        args.model_instance_device_id))]

init_compile(st) ==
    IF st.exc # NoExc THEN st
    ELSE LET p == get_torch_compile_params(st.self.model_config)
         IN IF p.exc # NoExc THEN [st EXCEPT !.exc = p.exc]
            ELSE IF st.self.support_batching
            THEN [st EXCEPT !.params = p.val,
                            !.self = SetAttr(SetAttr(@, "batcher", p.val), "unbatcher", p.val)]
            ELSE [st EXCEPT !.params = p.val]

init_locate(st, fs) ==
    IF st.exc # NoExc THEN st
    ELSE LET m == get_model_path(st.self.model_config, fs)
         IN [st EXCEPT !.exc = m.exc, !.model_path = m.val]

init_load_torchscript(st, fs, fn) ==
    LET m == torch_jit_load(st.model_path, fs, fn)
    IN IF m.exc # NoExc THEN [st EXCEPT !.exc = m.exc]
       ELSE [st EXCEPT
               !.self = SetAttr(@, "model",
                   [torch_object_to_device(m.val, st.self.device) EXCEPT !.training = FALSE])]

init_load_class(st, fs, attrs, dok, fn) ==
    LET module == import_module_from_path(st.self.model_name, st.model_path, attrs)
        s1 == SetAttr(st.self, "model_module", module.file)
        c == get_model_class_from_module(module)
    IN IF c.exc # NoExc THEN [st EXCEPT !.self = s1, !.exc = c.exc]
       ELSE LET s2 == SetAttr(s1, "model_class", c.val)
                raw == [NoModel EXCEPT !.kind = "nn.Module", !.fn = fn, !.class = c.val]
                s3 == SetAttr(s2, "raw_model", raw)
                data_path == get_model_data_path(st.model_path, fs)
                loaded == IF data_path # "" THEN load_state_dict(raw, data_path, dok)
                          ELSE [exc |-> NoExc, val |-> raw]
            IN IF loaded.exc # NoExc THEN [st EXCEPT !.self = s3, !.exc = loaded.exc]
               ELSE LET placed == [torch_object_to_device(loaded.val, st.self.device)
                                     EXCEPT !.training = FALSE]
                        s4 == SetAttr(s3, "raw_model", placed)
                    IN [st EXCEPT
                          !.self = SetAttr(s4, "model", torch_compile_model(placed, st.params))]

init_load(st, fs, attrs, dok, fn) ==
    IF st.exc # NoExc THEN st
    ELSE IF ~is_py_class_model(st.model_path) THEN init_load_torchscript(st, fs, fn)
    ELSE init_load_class(st, fs, attrs, dok, fn)

initialize(slf, ts, args, fs, attrs, dok, fn) ==
    init_load(init_locate(init_compile(init_device(init_infer_mode(
        init_config(slf, ts, args)), args)), fs), fs, attrs, dok, fn)

(***************************************************************************)
(* TritonPythonModel.finalize.                                             *)
(***************************************************************************)
finalize(slf, ts) ==
    IF ~HasAttr(slf, "infer_mode")
    THEN [self |-> slf, torch |-> ts,
          exc |-> Exc("AttributeError", "no attribute '_infer_mode'")]
    ELSE [self |-> [slf EXCEPT !.infer_mode.entered = FALSE],
          torch |-> [ts EXCEPT !.inference_mode = slf.infer_mode.prev],
          exc |-> NoExc]

(***************************************************************************)
(* The host side of execute: a request maps input names to tensors.        *)
(***************************************************************************)
NoTensor == [rows |-> <<>>, shape |-> 0, device |-> "cpu"]

get_input_tensor_by_name(request, name) ==
    IF name \in DOMAIN request THEN [found |-> TRUE, tensor |-> request[name]]
    ELSE [found |-> FALSE, tensor |-> NoTensor]

to_dlpack(tensor) == [capsule |-> tensor]
from_dlpack(capsule) == capsule.capsule
detach(tensor) == tensor   \* tensors carry no autograd state under inference mode

pb_tensor_from_dlpack(name, tensor) == [name |-> name, tensor |-> from_dlpack(to_dlpack(tensor))]
InferenceResponse(output_tensors) == [output_tensors |-> output_tensors]

(***************************************************************************)
(* The loaded model called on its positional arguments.  The forward       *)
(* function is data of the artifact: "identity" returns its arguments as   *)
(* a tuple, "first" returns its first argument as a bare tensor, "empty"   *)
(* returns an empty tuple, "strict" is "identity" but rejects every        *)
(* trailing shape other than 1.                                            *)
(***************************************************************************)
call_model(model, input_tensors) ==
    CASE model.fn = "identity" ->
           [exc |-> NoExc, is_seq |-> TRUE, seq |-> input_tensors, one |-> NoTensor]
      [] model.fn = "first" ->
           IF input_tensors = <<>>
           THEN [exc |-> Exc("TypeError", "forward() missing 1 required positional argument"),
                 is_seq |-> TRUE, seq |-> <<>>, one |-> NoTensor]
           ELSE [exc |-> NoExc, is_seq |-> FALSE, seq |-> <<>>, one |-> input_tensors[1]]
      [] model.fn = "empty" ->
           [exc |-> NoExc, is_seq |-> TRUE, seq |-> <<>>, one |-> NoTensor]
      [] OTHER ->
           IF \E k \in 1..Len(input_tensors) : input_tensors[k].shape # 1
           THEN [exc |-> Exc("RuntimeError", "mat1 and mat2 shapes cannot be multiplied"),
                 is_seq |-> TRUE, seq |-> <<>>, one |-> NoTensor]
           ELSE [exc |-> NoExc, is_seq |-> TRUE, seq |-> input_tensors, one |-> NoTensor]

(***************************************************************************)
(* TritonPythonModel.execute, loop by loop.                                *)
(***************************************************************************)
RECURSIVE extract_tensors(_, _, _, _, _)
extract_tensors(request, inputs, device, k, tensors) ==
    IF k > Len(inputs) THEN [exc |-> NoExc, val |-> tensors]
    ELSE LET t == get_input_tensor_by_name(request, inputs[k].name)
         IN IF ~t.found
            THEN [exc |-> Exc("AttributeError", "'NoneType' object has no attribute 'to_dlpack'"),
                  val |-> tensors]
            ELSE extract_tensors(request, inputs, device, k + 1,
                     Append(tensors,
                            torch_object_to_device(from_dlpack(to_dlpack(t.tensor)), device)))

RECURSIVE extract_requests(_, _, _, _, _)
extract_requests(requests, inputs, device, i, requests_tensors) ==
    IF i > Len(requests) THEN [exc |-> NoExc, val |-> requests_tensors]
    ELSE LET t == extract_tensors(requests[i], inputs, device, 1, <<>>)
         IN IF t.exc # NoExc THEN [exc |-> t.exc, val |-> requests_tensors]
            ELSE extract_requests(requests, inputs, device, i + 1,
                                  Append(requests_tensors, t.val))

\* Mutant: a request whose model call raises is dropped and the loop goes on.
RECURSIVE invoke_all_skipping(_, _, _, _)
invoke_all_skipping(model, requests_tensors, k, responses_tensors) ==
    IF k > Len(requests_tensors)
    THEN [exc |-> NoExc, val |-> responses_tensors, calls |-> k - 1]
    ELSE LET o == call_model(model, requests_tensors[k])
         IN invoke_all_skipping(model, requests_tensors, k + 1,
                IF o.exc # NoExc THEN responses_tensors
                ELSE Append(responses_tensors, IF o.is_seq THEN o.seq ELSE <<o.one>>))

RECURSIVE invoke_all(_, _, _, _)
invoke_all(model, requests_tensors, k, responses_tensors) ==
    IF k > Len(requests_tensors)
    THEN [exc |-> NoExc, val |-> responses_tensors, calls |-> k - 1]
    ELSE LET o == call_model(model, requests_tensors[k])
         IN IF o.exc # NoExc THEN [exc |-> o.exc, val |-> responses_tensors, calls |-> k]
            ELSE invoke_all(model, requests_tensors, k + 1,
                            Append(responses_tensors, IF o.is_seq THEN o.seq ELSE <<o.one>>))

RECURSIVE build_outputs(_, _, _, _)
build_outputs(response_tensors, outputs, i, output_tensors) ==
    IF i > Len(outputs) THEN [exc |-> NoExc, val |-> output_tensors]
    ELSE IF i > Len(response_tensors)
    THEN [exc |-> Exc("IndexError", "list index out of range"), val |-> output_tensors]
    ELSE build_outputs(response_tensors, outputs, i + 1,
             Append(output_tensors,
                    pb_tensor_from_dlpack(outputs[i].name, detach(response_tensors[i]))))

RECURSIVE build_responses(_, _, _, _)
build_responses(responses_tensors, outputs, k, responses) ==
    IF k > Len(responses_tensors) THEN [exc |-> NoExc, val |-> responses]
    ELSE LET o == build_outputs(responses_tensors[k], outputs, 1, <<>>)
         IN IF o.exc # NoExc THEN [exc |-> o.exc, val |-> responses]
            ELSE build_responses(responses_tensors, outputs, k + 1,
                                 Append(responses, InferenceResponse(o.val)))

\* Lines 280-291: st = [exc, requests_tensors, sections, responses_tensors,
\* responses, batcher_calls, unbatcher_calls, model_calls].
exec_extract(slf, requests) ==
    LET r == extract_requests(requests, slf.inputs, slf.device, 1, <<>>)
    IN [exc |-> r.exc, requests_tensors |-> r.val, sections |-> <<>>,
        responses_tensors |-> <<>>, responses |-> <<>>,
        batcher_calls |-> 0, unbatcher_calls |-> 0, model_calls |-> <<>>]

exec_batch(slf, st) ==
    IF st.exc # NoExc \/ ~slf.support_batching THEN st
    ELSE LET b == batch_torch_tensors(st.requests_tensors)
         IN [st EXCEPT !.exc = b.exc, !.batcher_calls = @ + 1,
                       !.requests_tensors = IF b.exc = NoExc THEN b.val.merged ELSE @,
                       !.sections = b.val.sections]

exec_invoke(slf, st) ==
    IF st.exc # NoExc THEN st
    ELSE LET r == invoke_all(slf.model, st.requests_tensors, 1, <<>>)
         IN [st EXCEPT !.exc = r.exc, !.responses_tensors = r.val,
                       !.model_calls = SubSeq(st.requests_tensors, 1, r.calls)]

exec_unbatch(slf, st) ==
    IF st.exc # NoExc \/ ~slf.support_batching THEN st
    ELSE LET u == unbatch_torch_tensors(st.responses_tensors[1], st.sections)
         IN [st EXCEPT !.exc = u.exc, !.unbatcher_calls = @ + 1,
                       !.responses_tensors = IF u.exc = NoExc THEN u.val ELSE @]

exec_respond(slf, st) ==
    IF st.exc # NoExc THEN st
    ELSE LET r == build_responses(st.responses_tensors, slf.outputs, 1, <<>>)
         IN [st EXCEPT !.exc = r.exc, !.responses = r.val]

execute(slf, requests) ==
    LET st == exec_respond(slf, exec_unbatch(slf, exec_invoke(slf,
                  exec_batch(slf, exec_extract(slf, requests)))))
    IN [requests |-> requests, exc |-> st.exc, returned |-> st.exc = NoExc,
        responses |-> IF st.exc = NoExc THEN st.responses ELSE <<>>,
        batcher_calls |-> st.batcher_calls, unbatcher_calls |-> st.unbatcher_calls,
        model_calls |-> st.model_calls]

(***************************************************************************)
(* Inputs of the handlers.                                                 *)
(***************************************************************************)
Shapes == {1, 2}
ModelFns == {"identity", "first", "empty", "strict"}
AttrKinds == {"value", "class", "nnModule"}

IOConfig(prefix, n) ==
    [k \in 1..n |-> [name |-> prefix \o ToString(k - 1), data_type |-> "TYPE_FP32"]]

Parameters(threads, compile) ==
    [k \in (IF threads = "absent" THEN {} ELSE {"NUM_THREADS"})
           \cup (IF compile = "absent" THEN {} ELSE {"TORCH_COMPILE_OPTIONAL_PARAMETERS"})
       |-> [string_value |-> IF k = "NUM_THREADS" THEN threads ELSE compile]]

Args(mbs, nin, nout, filename, threads, compile, kind) ==
    [model_name |-> "m",
     model_config |-> [max_batch_size |-> mbs, input |-> IOConfig("INPUT", nin),
                       output |-> IOConfig("OUTPUT", nout),
                       default_model_filename |-> filename,
                       parameters |-> Parameters(threads, compile)],
     model_instance_kind |-> kind, model_instance_device_id |-> "0"]

LoadArgs ==
    {Args(mbs, 1, 1, filename, threads, compile, "GPU") :
        mbs \in {0, 2}, filename \in {"", "net.py", "model.pth"},
        threads \in {"absent", "2", "x"},
        compile \in {"absent", "{\"fullgraph\": true}", "{\"model\": 1}"}}

ExecArgs ==
    {Args(mbs, nin, nout, "", "absent", "absent", kind) :
        mbs \in {0, 2}, nin \in 1..MaxInputs, nout \in 1..MaxOutputs,
        kind \in {"GPU", "MODEL"}}

LoadFiles ==
    {path_join(get_model_dir, f) :
        f \in {"net.py", "model.py", "model.pt", "model.pth", "model.py.pt"}}

ModuleAttrs ==
    UNION {[1..n -> AttrKinds] : n \in 1..MaxAttrs}

AttrsOf(kinds) ==
    [k \in 1..Len(kinds) |-> [name |-> "attr" \o ToString(k), kind |-> kinds[k]]]

TensorOf(i, j, len, shape) ==
    [rows |-> [r \in 1..len |-> <<i, j, r>>], shape |-> shape, device |-> "cpu"]

\* Request i of a call: one tensor per configured input, all of axis-0 length len.
RequestOf(i, inputs, len, shape, present) ==
    [name \in (IF present THEN {inputs[k].name : k \in 1..Len(inputs)} ELSE {}) |->
        TensorOf(i, CHOOSE k \in 1..Len(inputs) : inputs[k].name = name, len, shape)]

RequestLists(inputs, maxreq) ==
    {[i \in 1..n |-> RequestOf(i, inputs, lens[i], shapes[i], ~(lacking /\ i = n))] :
        <<n, lens, shapes, lacking>> \in
            UNION {{<<m, l, s, b>> : l \in [1..m -> 1..MaxLen], s \in [1..m -> Shapes],
                                     b \in BOOLEAN} : m \in 1..maxreq}}

NoCall ==
    [requests |-> <<>>, exc |-> NoExc, returned |-> FALSE, responses |-> <<>>,
     batcher_calls |-> 0, unbatcher_calls |-> 0, model_calls |-> <<>>]

(***************************************************************************)
(* Actions: the host calls initialize once, then execute any number of     *)
(* times, one call at a time, then finalize.                               *)
(***************************************************************************)
Initialize(argset) ==
    /\ phase = "constructed"
    /\ \E args \in argset :
          LET st == initialize(self, torch_state, args, files, module_attrs,
                               data_ok, artifact_fn)
          IN /\ self' = st.self
             /\ torch_state' = st.torch
             /\ last_exc' = st.exc
             /\ located' = st.model_path
             /\ phase' = IF st.exc = NoExc THEN "initialized" ELSE "init_failed"
    /\ UNCHANGED <<files, module_attrs, data_ok, artifact_fn, call, pure_in, pure_out>>

Execute(maxreq) ==
    /\ phase = "initialized"
    /\ call = NoCall
    /\ \E requests \in RequestLists(self.inputs, maxreq) :
          call' = execute(self, requests)
    /\ UNCHANGED <<files, module_attrs, data_ok, artifact_fn, torch_state, self, phase,
                   last_exc, located, pure_in, pure_out>>

\* execute has returned (line 321) or raised: the host takes the outcome.
Return ==
    /\ call # NoCall
    /\ call' = NoCall
    /\ UNCHANGED <<files, module_attrs, data_ok, artifact_fn, torch_state, self, phase,
                   last_exc, located, pure_in, pure_out>>

Finalize ==
    /\ phase \in {"initialized", "init_failed"}
    /\ call = NoCall
    /\ LET f == finalize(self, torch_state)
       IN /\ self' = f.self
          /\ torch_state' = f.torch
          /\ last_exc' = f.exc
    /\ phase' = "finalized"
    /\ UNCHANGED <<files, module_attrs, data_ok, artifact_fn, located, call,
                   pure_in, pure_out>>

InitInstance ==
    /\ torch_state = [num_threads |-> 1, num_interop_threads |-> 1, inference_mode |-> FALSE]
    /\ self = BlankSelf
    /\ phase = "constructed"
    /\ last_exc = NoExc
    /\ located = ""
    /\ call = NoCall

NoPure == [op |-> "none"]

\* Loading: every content of the model directory, small execute calls.
InitLoad ==
    /\ files \in SUBSET LoadFiles
    /\ module_attrs \in {AttrsOf(kinds) : kinds \in ModuleAttrs}
    /\ data_ok \in BOOLEAN
    /\ artifact_fn = "identity"
    /\ InitInstance
    /\ pure_in = NoPure
    /\ pure_out = NoPure

NextLoad == Initialize(LoadArgs) \/ Execute(1) \/ Return \/ Finalize

SpecLoad == InitLoad /\ [][NextLoad]_vars

\* Execution: one TorchScript artifact, every forward function, every call.
InitExec ==
    /\ files = {path_join(get_model_dir, "model.pt")}
    /\ module_attrs = AttrsOf(<<"value">>)
    /\ data_ok = TRUE
    /\ artifact_fn \in ModelFns
    /\ InitInstance
    /\ pure_in = NoPure
    /\ pure_out = NoPure

NextExec == Initialize(ExecArgs) \/ Execute(MaxReq) \/ Return \/ Finalize

Spec == InitExec /\ [][NextExec]_vars

(***************************************************************************)
(* Direct calls of the two batching helpers on bounded inputs.             *)
(***************************************************************************)
RequestsTensors ==
    {[i \in 1..n |-> [j \in 1..k |-> TensorOf(i, j, lens[i], shapes[i])]] :
        <<n, k, lens, shapes>> \in
            UNION {{<<m, c, l, s>> : c \in 1..MaxInputs, l \in [1..m -> 1..MaxLen],
                                     s \in [1..m -> Shapes]} : m \in 1..MaxReq}}

ResponseTensors ==
    {[j \in 1..k |-> TensorOf(0, j, len, 1)] :
        k \in 0..MaxOutputs, len \in 0..(MaxReq * MaxLen)}

SectionLists ==
    UNION {[1..n -> 0..MaxLen] : n \in 0..MaxReq}

PureInputs ==
    {[op |-> "batch", requests_tensors |-> rt] : rt \in RequestsTensors}
    \cup {[op |-> "roundtrip", requests_tensors |-> rt] : rt \in RequestsTensors}
    \cup {[op |-> "unbatch", response_tensors |-> ot, sections |-> sec] :
             ot \in ResponseTensors, sec \in SectionLists}

ApplyBatch ==
    /\ pure_in.op = "batch"
    /\ pure_out = NoPure
    /\ LET b == batch_torch_tensors(pure_in.requests_tensors)
       IN pure_out' = [op |-> "batch", exc |-> b.exc, merged |-> b.val.merged,
                       sections |-> b.val.sections]
    /\ UNCHANGED <<files, module_attrs, data_ok, artifact_fn, torch_state, self, phase,
                   last_exc, located, call, pure_in>>

ApplyUnbatch ==
    /\ pure_in.op = "unbatch"
    /\ pure_out = NoPure
    /\ LET u == unbatch_torch_tensors(pure_in.response_tensors, pure_in.sections)
       IN pure_out' = [op |-> "unbatch", exc |-> u.exc, responses_tensors |-> u.val]
    /\ UNCHANGED <<files, module_attrs, data_ok, artifact_fn, torch_state, self, phase,
                   last_exc, located, call, pure_in>>

\* batch, then a model that returns its arguments, then unbatch (execute, lines 295-307).
ApplyRoundTrip ==
    /\ pure_in.op = "roundtrip"
    /\ pure_out = NoPure
    /\ LET b == batch_torch_tensors(pure_in.requests_tensors)
           o == IF b.exc # NoExc THEN [exc |-> b.exc, val |-> <<>>]
                ELSE invoke_all([NoModel EXCEPT !.fn = "identity"], b.val.merged, 1, <<>>)
           u == IF o.exc # NoExc THEN [exc |-> o.exc, val |-> <<>>]
                ELSE unbatch_torch_tensors(o.val[1], b.val.sections)
       IN pure_out' = [op |-> "roundtrip", exc |-> u.exc, responses_tensors |-> u.val]
    /\ UNCHANGED <<files, module_attrs, data_ok, artifact_fn, torch_state, self, phase,
                   last_exc, located, call, pure_in>>

InitPure ==
    /\ files = {}
    /\ module_attrs = AttrsOf(<<"value">>)
    /\ data_ok = TRUE
    /\ artifact_fn = "identity"
    /\ InitInstance
    /\ pure_in \in PureInputs
    /\ pure_out = NoPure

NextPure == ApplyBatch \/ ApplyUnbatch \/ ApplyRoundTrip

SpecPure == InitPure /\ [][NextPure]_vars

(***************************************************************************)
(* Properties of execute (specification Spec).                             *)
(***************************************************************************)
NumRequests == Len(call.requests)

AllInputsPresent ==
    \A i \in 1..NumRequests : \A k \in 1..Len(self.inputs) :
        self.inputs[k].name \in DOMAIN call.requests[i]

\* Trailing shape of request i (all its tensors share it).
ShapeOfRequest(i) == call.requests[i][self.inputs[1].name].shape

ShapesAgree ==
    \A i \in 1..NumRequests : ShapeOfRequest(i) = ShapeOfRequest(1)

\* The tensors of request i as execute hands them on (line 287).
OwnTensors(i) ==
    [k \in 1..Len(self.inputs) |->
        torch_object_to_device(call.requests[i][self.inputs[k].name], self.device)]

\* The model returns, for every request, at least the configured outputs,
\* output k being input k.
ModelAnswersEveryRequest ==
    /\ AllInputsPresent
    /\ \/ self.model.fn = "identity" /\ Len(self.outputs) <= Len(self.inputs)
       \/ self.model.fn = "first" /\ Len(self.outputs) = 1
       \/ /\ self.model.fn = "strict" /\ Len(self.outputs) <= Len(self.inputs)
          /\ \A i \in 1..NumRequests : ShapeOfRequest(i) = 1

ResponseBuiltFrom(i) ==
    [output_tensors |->
        [k \in 1..Len(self.outputs) |->
            [name |-> self.outputs[k].name, tensor |-> OwnTensors(i)[k]]]]

\* C1: every execute call with N >= 1 well-formed requests (batching enabled or
\* disabled, shapes agreeing outside axis 0) returns exactly N responses, and
\* response i is the one built from request i's inputs.
C1_OneResponsePerRequestInOrder ==
    (call # NoCall /\ ModelAnswersEveryRequest /\ ShapesAgree) =>
        /\ call.returned
        /\ Len(call.responses) = NumRequests
        /\ \A i \in 1..NumRequests : call.responses[i] = ResponseBuiltFrom(i)

\* The response execute gives request i when it is the only request of a call.
AloneResponse(i) == execute(self, <<call.requests[i]>>).responses[1]

\* C4: with max_batch_size = 0 an execute call never invokes batch or unbatch,
\* invokes the model once per request with only that request's tensors, and
\* response i is the response request i gets when it is executed alone.
C4_BatchingBypass ==
    (call # NoCall /\ self.model_config.max_batch_size = 0) =>
        /\ call.batcher_calls = 0
        /\ call.unbatcher_calls = 0
        /\ Len(call.model_calls) <= NumRequests
        /\ \A k \in 1..Len(call.model_calls) : call.model_calls[k] = OwnTensors(k)
        /\ call.returned =>
              /\ Len(call.model_calls) = NumRequests
              /\ Len(call.responses) = NumRequests
              /\ \A i \in 1..NumRequests : call.responses[i] = AloneResponse(i)

C4_Witness ==
    /\ call # NoCall
    /\ self.model_config.max_batch_size = 0
    /\ NumRequests = 3
    /\ call.returned
    /\ Len(call.model_calls) = 3
    /\ \E i \in 1..3 : ShapeOfRequest(i) # ShapeOfRequest(1)

\* A step of the call is bound to fail: an input is missing, the batch mixes
\* trailing shapes, or the model rejects a shape it is given.
SomeStepFails ==
    \/ ~AllInputsPresent
    \/ AllInputsPresent /\ self.support_batching /\ ~ShapesAgree
    \/ /\ AllInputsPresent /\ self.model.fn = "strict"
       /\ \E i \in 1..NumRequests : ShapeOfRequest(i) # 1

\* C7: an execute call in which a step fails ends with an error and returns no
\* response; no call answers some of its requests and not the others.
C7_NoPartialResults ==
    call # NoCall =>
        /\ SomeStepFails => call.exc # NoExc
        /\ call.exc # NoExc => ~call.returned /\ call.responses = <<>>
        /\ Len(call.responses) \in {0, NumRequests}

C7_Witness ==
    /\ call # NoCall
    /\ ~self.support_batching
    /\ NumRequests = 3
    /\ AllInputsPresent
    /\ self.model.fn = "strict"
    /\ ShapeOfRequest(1) = 1 /\ ShapeOfRequest(2) = 1 /\ ShapeOfRequest(3) = 2
    /\ Len(call.model_calls) = 3
    /\ call.exc.type = "RuntimeError"
    /\ call.responses = <<>>

(***************************************************************************)
(* Properties of initialize and finalize (specification SpecLoad).         *)
(***************************************************************************)
InitializeRan == phase \in {"initialized", "init_failed"}

Candidate(filename) == path_join(get_model_dir, filename)

NoCandidateExists ==
    /\ Candidate("model.py") \notin files
    /\ Candidate("model.pt") \notin files
    /\ Candidate("model.pth") \notin files
    /\ self.model_config.default_model_filename # "" =>
          Candidate(self.model_config.default_model_filename) \notin files

\* The configuration passes every step of initialize that precedes the lookup.
ConfigReachesLookup ==
    LET parameters == self.model_config.parameters
    IN /\ "NUM_THREADS" \in DOMAIN parameters =>
             parameters["NUM_THREADS"].string_value \in {"1", "2", "4"}
       /\ "TORCH_COMPILE_OPTIONAL_PARAMETERS" \in DOMAIN parameters =>
             parameters["TORCH_COMPILE_OPTIONAL_PARAMETERS"].string_value
                 \in {"{}", "{\"fullgraph\": true}"}

ModelNotFound(exc) ==
    exc = [type |-> "TritonModelException", msg |-> "No model found in /models/m/1"]

\* C5: when the model directory holds none of the candidate files, initialize
\* fails, with ModelNotFound when the configuration is otherwise valid, and
\* self._model is never assigned.
C5_FatalLoadErrorPropagation ==
    (InitializeRan /\ NoCandidateExists) =>
        /\ phase = "init_failed"
        /\ last_exc # NoExc
        /\ ConfigReachesLookup => ModelNotFound(last_exc)
        /\ ~HasAttr(self, "model")

C5_Witness ==
    /\ phase = "init_failed"
    /\ files = {}
    /\ self.model_config.default_model_filename = "net.py"
    /\ ModelNotFound(last_exc)
    /\ ~HasAttr(self, "model")

\* The first candidate, in the documented order, that exists ("" when none does).
FirstCandidateInOrder ==
    LET default == self.model_config.default_model_filename
    IN IF default # "" /\ Candidate(default) \in files THEN Candidate(default)
       ELSE IF Candidate("model.py") \in files THEN Candidate("model.py")
       ELSE IF Candidate("model.pt") \in files THEN Candidate("model.pt")
       ELSE IF Candidate("model.pth") \in files THEN Candidate("model.pth")
       ELSE ""

\* C6: the lookup returns the first existing candidate in the order configured
\* filename (when non-empty), model.py, model.pt, model.pth, so the configured
\* file wins over model.py when both exist, and it fails with ModelNotFound
\* when no candidate exists.
C6_LocatorPrecedence ==
    (phase # "constructed" /\ ConfigReachesLookup) =>
        /\ located = FirstCandidateInOrder
        /\ (self.model_config.default_model_filename # ""
              /\ Candidate(self.model_config.default_model_filename) \in files)
           => located = Candidate(self.model_config.default_model_filename)
        /\ (InitializeRan /\ NoCandidateExists) => ModelNotFound(last_exc)
        /\ (InitializeRan /\ ~NoCandidateExists) => ~ModelNotFound(last_exc)

C6_Witness ==
    /\ InitializeRan
    /\ self.model_config.default_model_filename = "model.pth"
    /\ {Candidate("model.pth"), Candidate("model.py"), Candidate("model.pt")} \subseteq files
    /\ located = Candidate("model.pth")

EligibleClasses ==
    {k \in 1..Len(module_attrs) : module_attrs[k].kind = "nnModule"}

\* initialize got as far as scanning the module for a model class.
ClassPathTaken ==
    /\ InitializeRan
    /\ ConfigReachesLookup
    /\ located # ""
    /\ is_py_class_model(located)

NoModelClassFound(exc) ==
    exc = [type |-> "TritonModelException",
           msg |-> "Cannot find a subclass of torch.nn.Module"]

\* C9: on the class-based path names that are not classes are skipped, a module
\* with exactly one eligible class loads that class, and a module with zero or
\* with more than one eligible class fails with NoModelClassFound.
C9_ModelClassDiscovery ==
    ClassPathTaken =>
        /\ Cardinality(EligibleClasses) = 1 =>
              /\ ~NoModelClassFound(last_exc)
              /\ HasAttr(self, "model_class")
              /\ \E k \in EligibleClasses : self.model_class = module_attrs[k].name
        /\ Cardinality(EligibleClasses) # 1 =>
              /\ NoModelClassFound(last_exc)
              /\ ~HasAttr(self, "model_class")

\* C10: the inference-mode scope entered by initialize is no longer held after
\* an initialize that failed, nor after finalize has returned.
C10_InferModeReleased ==
    /\ phase = "init_failed" => ~torch_state.inference_mode
    /\ phase = "finalized" => ~torch_state.inference_mode

(***************************************************************************)
(* Properties of the batching helpers (specification SpecPure).            *)
(***************************************************************************)
InputShapesAgree ==
    \A i \in 1..Len(pure_in.requests_tensors) :
        pure_in.requests_tensors[i][1].shape = pure_in.requests_tensors[1][1].shape

\* C2: batch, a model that is the identity per slot, then unbatch give back,
\* for every request, exactly that request's tensors in slot order.
C2_BatchUnbatchRoundTrip ==
    (pure_out.op = "roundtrip" /\ InputShapesAgree) =>
        /\ pure_out.exc = NoExc
        /\ pure_out.responses_tensors = pure_in.requests_tensors

\* C3: after batch, sections has one entry per request, equal to the request's
\* axis-0 length, and every merged tensor's axis-0 length is the sum of sections.
C3_SectionsSum ==
    (pure_out.op = "batch" /\ InputShapesAgree) =>
        /\ pure_out.exc = NoExc
        /\ Len(pure_out.sections) = Len(pure_in.requests_tensors)
        /\ \A i \in 1..Len(pure_out.sections) :
              pure_out.sections[i] = size0(pure_in.requests_tensors[i][1])
        /\ Len(pure_out.merged) = 1
        /\ \A j \in 1..Len(pure_out.merged[1]) :
              size0(pure_out.merged[1][j]) = sum_seq(pure_out.sections)

LengthsMatchSections ==
    \A j \in 1..Len(pure_in.response_tensors) :
        size0(pure_in.response_tensors[j]) = sum_seq(pure_in.sections)

\* Piece i of output slot j: the sections[i] rows that follow the first
\* sections[1] + ... + sections[i-1] rows.
PieceOf(j, i) ==
    LET before == sum_seq(SubSeq(pure_in.sections, 1, i - 1))
    IN [pure_in.response_tensors[j] EXCEPT
          !.rows = SubSeq(pure_in.response_tensors[j].rows, before + 1,
                          before + pure_in.sections[i])]

UnbatchPostcondition ==
    /\ pure_out.exc = NoExc
    /\ Len(pure_out.responses_tensors) = Len(pure_in.sections)
    /\ \A i \in 1..Len(pure_in.sections) :
          /\ Len(pure_out.responses_tensors[i]) = Len(pure_in.response_tensors)
          /\ \A j \in 1..Len(pure_in.response_tensors) :
                /\ pure_out.responses_tensors[i][j] = PieceOf(j, i)
                /\ size0(pure_out.responses_tensors[i][j]) = pure_in.sections[i]

\* C8: for every sequence of output tensors whose axis-0 lengths equal
\* sum(sections), unbatch returns exactly len(sections) tensor sets, set i
\* holding piece i of every slot in slot order, each of length sections[i].
C8_UnbatchPostcondition ==
    (pure_out.op = "unbatch" /\ LengthsMatchSections) => UnbatchPostcondition

\* C8, amended: the postcondition of C8 holds for every sequence of at least one
\* output tensor (with no output tensor unbatch returns an empty sequence,
\* whatever sections is).
C8_UnbatchPostconditionWithOutputs ==
    /\ (pure_out.op = "unbatch" /\ LengthsMatchSections
           /\ pure_in.response_tensors # <<>>) => UnbatchPostcondition
    /\ (pure_out.op = "unbatch" /\ pure_in.response_tensors = <<>>) =>
           pure_out.exc = NoExc /\ pure_out.responses_tensors = <<>>

C8_Witness ==
    /\ pure_out.op = "unbatch"
    /\ Len(pure_in.response_tensors) = 2
    /\ pure_in.sections = <<1, 0, 2>>
    /\ LengthsMatchSections
    /\ Len(pure_out.responses_tensors) = 3
    /\ size0(pure_out.responses_tensors[3][2]) = 2

====
